---- MODULE Spec2Model ----
(***************************************************************************)
(* Model of src/app.py: a Flask passthrough to the Upstox brokerage API    *)
(* with a pre-trade funds guard.  One request is served at a time; every   *)
(* handler is one action that runs the whole handler against the upstream  *)
(* outcomes of that request, records every upstream call it issued and     *)
(* leaves the local HTTP response.                                         *)
(***************************************************************************)
EXTENDS Integers, Sequences, FiniteSets, TLC

VARIABLES ACCESS_TOKEN, request, calls, guard, response

vars == <<ACCESS_TOKEN, request, calls, guard, response>>

(* ------------------------------ bounds --------------------------------- *)
MaxQty == 2
MaxPrice == 2

(* --------------------------- program constants ------------------------- *)
FallbackPrice == 1000

UPSTOX_FUNDS_URL == "https://upstox.com/funds/add"

PRODUCT_MAP == [CNC |-> "D", INTRADAY |-> "I", MIS |-> "MIS", CO |-> "CO", BO |-> "BO"]

LegacyInstrument == "NSE_EQ|INE848E01016"

(* ------------------------------ value sets ----------------------------- *)
Absent == "absent"

Instruments == {LegacyInstrument, "NSE_EQ|X"}

OrderIds == {"o1"}

Quantities == 0..MaxQty

Prices == 0..MaxPrice

\* last traded prices a quote can carry: negative, zero and positive ones
LastPrices == (-1)..MaxPrice

\* margins around every cost the guard can estimate
Margins == (0..(MaxQty * MaxPrice + 1))
           \cup {q * FallbackPrice + d : q \in 1..MaxQty, d \in {-1, 0, 1}}

\* python's str.upper() on the transaction types a request can carry
Upper(s) == IF s = "buy" THEN "BUY" ELSE IF s = "sell" THEN "SELL" ELSE s

(* -------------------------- upstream outcomes -------------------------- *)
\* a requests.* call either raises (network failure, timeout) or returns a
\* response with a status code and a JSON body
ExcText == "connection error"

\* quote lookup: body {"data": {key: {"last_price": p}}}; key = Absent is an
\* empty data object, has_last_price = FALSE a quote without last_price
QuoteOutcomes ==
    {[kind |-> "exception", status |-> 0, key |-> Absent, has_last_price |-> FALSE, last_price |-> 0]}
    \cup {[kind |-> "response", status |-> s, key |-> Absent, has_last_price |-> FALSE, last_price |-> 0] :
            s \in {201, 404}}
    \cup {[kind |-> "response", status |-> 200, key |-> Absent, has_last_price |-> FALSE, last_price |-> 0]}
    \cup {[kind |-> "response", status |-> 200, key |-> k, has_last_price |-> FALSE, last_price |-> 0] :
            k \in Instruments}
    \cup {[kind |-> "response", status |-> 200, key |-> k, has_last_price |-> TRUE, last_price |-> p] :
            k \in Instruments, p \in LastPrices}

\* funds lookup: body {"data": {"equity": {"available_margin": m}}}
FundsOutcomes ==
    {[kind |-> "exception", status |-> 0, has_margin |-> FALSE, available_margin |-> 0]}
    \cup {[kind |-> "response", status |-> s, has_margin |-> FALSE, available_margin |-> 0] :
            s \in {201, 500}}
    \cup {[kind |-> "response", status |-> 200, has_margin |-> FALSE, available_margin |-> 0]}
    \cup {[kind |-> "response", status |-> 200, has_margin |-> TRUE, available_margin |-> m] :
            m \in Margins}

\* the JSON bodies a relayed call can carry: a payload, or an error object
JsonBodies == {[data |-> "payload", error_message |-> Absent],
               [data |-> Absent, error_message |-> "rejected"]}

NoJson == [data |-> Absent, error_message |-> Absent]

RelayOutcomes ==
    {[kind |-> "exception", status |-> 0, json |-> NoJson]}
    \cup {[kind |-> "response", status |-> s, json |-> j] : s \in {200, 201, 400}, j \in JsonBodies}

(* ------------------------------ responses ------------------------------ *)
Msg(text) == [text |-> text, required |-> 0, available |-> 0]

NoMsg == Msg(Absent)

NoUrl == [base |-> Absent, source |-> Absent, reason |-> Absent, error |-> NoMsg,
          instrument |-> Absent, order_id |-> Absent]

NoResponse == [status |-> 0, kind |-> "none", message |-> NoMsg, redirect_url |-> NoUrl,
               json |-> NoJson, code |-> 0]

NoGuard == [ran |-> FALSE, transaction_type |-> Absent, instrument_token |-> Absent,
            quantity |-> 0, given_price |-> 0, price |-> 0, estimated_cost |-> 0,
            compared |-> FALSE, has_funds |-> FALSE, funds_error |-> NoMsg]

NoRequest == [endpoint |-> "none"]

\* jsonify({'error': text}), status
ErrorJson(status, msg) == [NoResponse EXCEPT !.status = status, !.kind = "error", !.message = msg]

\* one issued upstream call: the place in the source that issued it (site),
\* what it asked and what came back
Call(site, api, method, arg, out) ==
    [site |-> site, api |-> api, method |-> method, arg |-> arg, outcome |-> out]

Issued(cs, site) == \E i \in 1..Len(cs) : cs[i].site = site

\* the program runs its calls one after the other, so whether a call is issued
\* is decided by the outcomes before it: an outcome is drawn only for a call
\* the handler issues
OutcomesFor(cs, site, outcomes, unasked) == IF Issued(cs, site) THEN outcomes ELSE {unasked}

(* --------------------------- handle_response --------------------------- *)
\* jsonify(response.json()) returned without the upstream status code
handle_response_default_status(out) ==
    IF out.status \in {200, 201}
    THEN [NoResponse EXCEPT !.status = 200, !.kind = "passthrough", !.json = out.json]
    ELSE [NoResponse EXCEPT !.status = out.status, !.kind = "normalized", !.code = out.status,
                            !.message = Msg(IF out.json.error_message # Absent
                                            THEN out.json.error_message
                                            ELSE "Unknown error")]

\* handle_response(response)
handle_response(out) ==
    IF out.status \in {200, 201}
    THEN [NoResponse EXCEPT !.status = out.status, !.kind = "passthrough", !.json = out.json]
    ELSE [NoResponse EXCEPT !.status = out.status, !.kind = "normalized", !.code = out.status,
                            !.message = Msg(IF out.json.error_message # Absent
                                            THEN out.json.error_message
                                            ELSE "Unknown error")]

(* ------------------------------ state ---------------------------------- *)
Init ==
    /\ ACCESS_TOKEN \in BOOLEAN
    /\ request = NoRequest
    /\ calls = <<>>
    /\ guard = NoGuard
    /\ response = NoResponse

Idle == response.kind = "none"

\* every handler leaves its response, the upstream calls it issued and the
\* locals of the funds check it ran
Serve(req, result) ==
    /\ request' = req
    /\ calls' = result.calls
    /\ guard' = result.guard
    /\ response' = result.response
    /\ UNCHANGED ACCESS_TOKEN

Result(resp, cs, g) == [response |-> resp, calls |-> cs, guard |-> g]

\* the decorator left off a route
token_not_checked(result) == result

\* @token_required
token_required(result) ==
    IF ~ACCESS_TOKEN
    THEN Result(ErrorJson(401, Msg("Missing API token")), <<>>, NoGuard)
    ELSE result

\* the read-only endpoints: one GET, relayed through handle_response
relay(api, method, arg, out) ==
    IF out.kind = "exception"
    THEN Result(ErrorJson(500, Msg(ExcText)), <<Call("relay", api, method, arg, out)>>, NoGuard)
    ELSE Result(handle_response(out), <<Call("relay", api, method, arg, out)>>, NoGuard)

(* --------------------------- funds guard ------------------------------- *)
ValidateCall(instrument_token, out) ==
    Call("validate", "market-quote/quotes", "GET", instrument_token, out)

QuoteCall(instrument_token, out) ==
    Call("quote", "market-quote/quotes", "GET", instrument_token, out)

FundsCall(out) == Call("funds", "user/get-funds-and-margin", "GET", "", out)

\* the status of the validation lookup left unchecked
validate_instrument_any_status(instrument_token, out) ==
    IF out.kind = "exception"
    THEN [is_valid |-> FALSE, error_msg |-> ExcText,
          calls |-> <<ValidateCall(instrument_token, out)>>]
    ELSE [is_valid |-> TRUE, error_msg |-> Absent,
          calls |-> <<ValidateCall(instrument_token, out)>>]

\* validate_instrument(instrument_token): one quote lookup, valid iff 200
validate_instrument(instrument_token, out) ==
    IF out.kind = "exception"
    THEN [is_valid |-> FALSE, error_msg |-> ExcText,
          calls |-> <<ValidateCall(instrument_token, out)>>]
    ELSE IF out.status # 200
    THEN [is_valid |-> FALSE, error_msg |-> "Invalid instrument token",
          calls |-> <<ValidateCall(instrument_token, out)>>]
    ELSE [is_valid |-> TRUE, error_msg |-> Absent,
          calls |-> <<ValidateCall(instrument_token, out)>>]

\* quote_data.get(instrument_token, {}).get('last_price', 0)
last_price_of(instrument_token, quote) ==
    IF quote.key = instrument_token /\ quote.has_last_price THEN quote.last_price ELSE 0

\* the quoted price taken as it comes
resolve_price_unchecked(last_price) == last_price

\* price = last_price if last_price > 0 else 1000
resolve_price(last_price) == IF last_price > 0 THEN last_price ELSE FallbackPrice

\* funds_data.get('equity', {}).get('available_margin', 0)
available_margin_of(funds) == IF funds.has_margin THEN funds.available_margin ELSE 0

\* the comparison with the boundary on the wrong side
insufficient_or_equal(available_funds, estimated_cost) == available_funds <= estimated_cost

\* if available_funds < estimated_cost
insufficient(available_funds, estimated_cost) == available_funds < estimated_cost

GuardRecord(tt, tok, qty, given, price, cost, compared, ok, err) ==
    [ran |-> TRUE, transaction_type |-> tt, instrument_token |-> tok, quantity |-> qty,
     given_price |-> given, price |-> price, estimated_cost |-> cost, compared |-> compared,
     has_funds |-> ok, funds_error |-> err]

\* check_sufficient_funds(transaction_type, instrument_token, quantity, price):
\* the guard record holds its arguments, its locals and the pair it returns
check_sufficient_funds(transaction_type, instrument_token, quantity, given_price, quote, funds) ==
    LET lookup == given_price = 0
        qcalls == IF lookup THEN <<QuoteCall(instrument_token, quote)>> ELSE <<>>
        G(price, cost, compared, ok, err) ==
            GuardRecord(transaction_type, instrument_token, quantity, given_price,
                        price, cost, compared, ok, err)
    IN  IF lookup /\ quote.kind = "exception"
        THEN [guard |-> G(0, 0, FALSE, FALSE, Msg(ExcText)), calls |-> qcalls]
        ELSE IF lookup /\ quote.status # 200
        THEN [guard |-> G(0, 0, FALSE, FALSE, Msg("Failed to get stock quote")), calls |-> qcalls]
        ELSE
        LET price == IF lookup THEN resolve_price(last_price_of(instrument_token, quote))
                     ELSE given_price
            estimated_cost == quantity * price
        IN  IF Upper(transaction_type) = "BUY"
            THEN LET fcalls == qcalls \o <<FundsCall(funds)>>
                 IN  IF funds.kind = "exception"
                     THEN [guard |-> G(price, estimated_cost, FALSE, FALSE, Msg(ExcText)),
                           calls |-> fcalls]
                     ELSE IF funds.status # 200
                     THEN [guard |-> G(price, estimated_cost, FALSE, FALSE,
                                       Msg("Failed to get funds information")),
                           calls |-> fcalls]
                     ELSE IF insufficient(available_margin_of(funds), estimated_cost)
                     THEN [guard |-> G(price, estimated_cost, TRUE, FALSE,
                                       [text |-> "Insufficient funds",
                                        required |-> estimated_cost,
                                        available |-> available_margin_of(funds)]),
                           calls |-> fcalls]
                     ELSE [guard |-> G(price, estimated_cost, TRUE, TRUE, NoMsg), calls |-> fcalls]
            ELSE [guard |-> G(price, estimated_cost, FALSE, TRUE, NoMsg), calls |-> qcalls]

\* jsonify({'status': 'redirect', 'message': funds_error, 'redirect_url': funds_url}), 303
RedirectJson(funds_error, url) ==
    [NoResponse EXCEPT !.status = 303, !.kind = "redirect", !.message = funds_error,
                       !.redirect_url = url]

\* jsonify({'status': 'success', 'message': ..., 'order_data': result}): status 200
SuccessJson(text, json) ==
    [NoResponse EXCEPT !.status = 200, !.kind = "success", !.message = Msg(text), !.json = json]

(* ---------------------------- POST /orders ----------------------------- *)
RequiredFields == {"instrument_token", "quantity", "order_type", "product", "transaction_type"}

Products == {"CNC", "XX"}

TransactionTypes == {"BUY", "buy", "SELL"}

\* request bodies: all required fields with or without a price, or one
\* required field missing
PlaceBodies ==
    {[fields |-> RequiredFields \cup {"price"}, instrument_token |-> i, quantity |-> q,
      order_type |-> "MARKET", product |-> p, transaction_type |-> t, price |-> pr] :
        i \in Instruments, q \in Quantities, p \in Products, t \in TransactionTypes, pr \in Prices}
    \cup {[fields |-> RequiredFields, instrument_token |-> i, quantity |-> q,
      order_type |-> "MARKET", product |-> p, transaction_type |-> t, price |-> 0] :
        i \in Instruments, q \in Quantities, p \in Products, t \in TransactionTypes}
    \cup {[fields |-> RequiredFields \ {f}, instrument_token |-> LegacyInstrument, quantity |-> 1,
      order_type |-> "MARKET", product |-> "CNC", transaction_type |-> "BUY", price |-> 0] :
        f \in RequiredFields}

\* data.get('price', 0)
price_of(data) == IF "price" \in data.fields THEN data.price ELSE 0

PlaceCall(out) == Call("place", "order/place", "POST", "", out)

\* f"{UPSTOX_FUNDS_URL}?reason=insufficient_funds&error={funds_error}&instrument={...}"
place_order_funds_url(funds_error, instrument_token) ==
    [NoUrl EXCEPT !.base = UPSTOX_FUNDS_URL, !.reason = "insufficient_funds",
                  !.error = funds_error, !.instrument = instrument_token]

\* the tail of place_order and order: post the order, wrap a 200/201 in the
\* success envelope, normalise anything else, turn an exception into a 500
submit_order(text, cs, g, place) ==
    IF place.kind = "exception"
    THEN Result(ErrorJson(500, Msg(ExcText)), cs \o <<PlaceCall(place)>>, g)
    ELSE IF place.status \in {200, 201}
    THEN Result(SuccessJson(text, place.json), cs \o <<PlaceCall(place)>>, g)
    ELSE Result(handle_response(place), cs \o <<PlaceCall(place)>>, g)

place_order_handler(data, validate, quote, funds, place) ==
    IF RequiredFields \ data.fields # {}
    THEN Result(ErrorJson(400, Msg("Missing fields")), <<>>, NoGuard)
    ELSE IF data.product \notin DOMAIN PRODUCT_MAP
    THEN Result(ErrorJson(400, Msg("Invalid product type")), <<>>, NoGuard)
    ELSE
    LET v == validate_instrument(data.instrument_token, validate)
    IN  IF ~v.is_valid
        THEN Result(ErrorJson(400, Msg("Invalid instrument: " \o v.error_msg)), v.calls, NoGuard)
        ELSE IF Upper(data.transaction_type) = "BUY"
        THEN LET c == check_sufficient_funds(data.transaction_type, data.instrument_token,
                                             data.quantity, price_of(data), quote, funds)
             IN  IF ~c.guard.has_funds
                 THEN Result(RedirectJson(c.guard.funds_error,
                                          place_order_funds_url(c.guard.funds_error,
                                                                data.instrument_token)),
                             v.calls \o c.calls, c.guard)
                 ELSE submit_order("order placed successfully", v.calls \o c.calls, c.guard, place)
        ELSE submit_order("order placed successfully", v.calls, NoGuard, place)

ValidateOutcomes == {q \in QuoteOutcomes : q.key = Absent /\ ~q.has_last_price}

\* the outcomes of calls that are not issued
NoQuote == [kind |-> "unasked", status |-> 0, key |-> Absent, has_last_price |-> FALSE,
            last_price |-> 0]

NoFunds == [kind |-> "unasked", status |-> 0, has_margin |-> FALSE, available_margin |-> 0]

NoRelay == [kind |-> "unasked", status |-> 0, json |-> NoJson]

place_order ==
    /\ Idle
    /\ \E data \in PlaceBodies :
       \E validate \in OutcomesFor(
            token_required(place_order_handler(data, NoQuote, NoQuote, NoFunds, NoRelay)).calls,
            "validate", ValidateOutcomes, NoQuote) :
       \E quote \in OutcomesFor(
            token_required(place_order_handler(data, validate, NoQuote, NoFunds, NoRelay)).calls,
            "quote", QuoteOutcomes, NoQuote) :
       \E funds \in OutcomesFor(
            token_required(place_order_handler(data, validate, quote, NoFunds, NoRelay)).calls,
            "funds", FundsOutcomes, NoFunds) :
       \E place \in OutcomesFor(
            token_required(place_order_handler(data, validate, quote, funds, NoRelay)).calls,
            "place", RelayOutcomes, NoRelay) :
          Serve([endpoint |-> "POST /orders", data |-> data],
                token_required(place_order_handler(data, validate, quote, funds, place)))

(* ------------------------------ POST /order ---------------------------- *)
\* f"{UPSTOX_FUNDS_URL}?reason=insufficient_funds&error={funds_error}"
order_funds_url(funds_error) ==
    [NoUrl EXCEPT !.base = UPSTOX_FUNDS_URL, !.reason = "insufficient_funds",
                  !.error = funds_error]

\* the legacy endpoint: a fixed market BUY of one share
order_handler(validate, quote, funds, place) ==
    LET v == validate_instrument(LegacyInstrument, validate)
    IN  IF ~v.is_valid
        THEN Result(ErrorJson(400, Msg("Invalid instrument: " \o v.error_msg)), v.calls, NoGuard)
        ELSE LET c == check_sufficient_funds("BUY", LegacyInstrument, 1, 0, quote, funds)
             IN  IF ~c.guard.has_funds
                 THEN Result(RedirectJson(c.guard.funds_error, order_funds_url(c.guard.funds_error)),
                             v.calls \o c.calls, c.guard)
                 ELSE submit_order("Order initiated successfully", v.calls \o c.calls, c.guard,
                                   place)

order ==
    /\ Idle
    /\ \E validate \in OutcomesFor(
            token_required(order_handler(NoQuote, NoQuote, NoFunds, NoRelay)).calls,
            "validate", ValidateOutcomes, NoQuote) :
       \E quote \in OutcomesFor(
            token_required(order_handler(validate, NoQuote, NoFunds, NoRelay)).calls,
            "quote", QuoteOutcomes, NoQuote) :
       \E funds \in OutcomesFor(
            token_required(order_handler(validate, quote, NoFunds, NoRelay)).calls,
            "funds", FundsOutcomes, NoFunds) :
       \E place \in OutcomesFor(
            token_required(order_handler(validate, quote, funds, NoRelay)).calls,
            "place", RelayOutcomes, NoRelay) :
          Serve([endpoint |-> "POST /order"],
                token_required(order_handler(validate, quote, funds, place)))

(* --------------------------- PUT /orders/<id> -------------------------- *)
\* the order-details lookup: body {"data": {transaction_type, instrument_token,
\* quantity, price}}; transaction_type "" is an order without that field
DetailsOutcomes ==
    {[kind |-> "exception", status |-> 0, transaction_type |-> "", instrument_token |-> "",
      quantity |-> 0, price |-> 0]}
    \cup {[kind |-> "response", status |-> s, transaction_type |-> "", instrument_token |-> "",
           quantity |-> 0, price |-> 0] : s \in {201, 404}}
    \cup {[kind |-> "response", status |-> 200, transaction_type |-> "", instrument_token |-> "",
           quantity |-> 0, price |-> 0]}
    \cup {[kind |-> "response", status |-> 200, transaction_type |-> t, instrument_token |-> i,
           quantity |-> q, price |-> p] :
            t \in {"BUY", "SELL"}, i \in Instruments, q \in 1..MaxQty, p \in Prices}

NoDetails == [kind |-> "unasked", status |-> 0, transaction_type |-> "", instrument_token |-> "",
              quantity |-> 0, price |-> 0]

\* modified_data: the valid fields of the body; product Absent is a body
\* without product
ModifyBodies ==
    {[fields |-> f, quantity |-> q, price |-> p, validity |-> "IOC", product |-> pr] :
        f \in SUBSET {"quantity", "price", "validity"}, q \in Quantities, p \in Prices,
        pr \in {Absent, "CNC", "XX"}}

\* a field the body does not carry has one value
ModifyRequests ==
    {d \in ModifyBodies : /\ "quantity" \notin d.fields => d.quantity = 0
                          /\ "price" \notin d.fields => d.price = 0}

DetailsCall(order_id, out) == Call("details", "order/details", "GET", order_id, out)

ModifyCall(order_id, out) == Call("modify", "order/modify", "PUT", order_id, out)

\* the check run on every modification of a BUY
needs_funds_check_always(transaction_type, data) == Upper(transaction_type) = "BUY"

\* transaction_type.upper() == "BUY" and ('quantity' in modified_data or 'price' in modified_data)
needs_funds_check(transaction_type, data) ==
    /\ Upper(transaction_type) = "BUY"
    /\ ("quantity" \in data.fields \/ "price" \in data.fields)

\* the existing quantity used whatever the body carries
new_quantity_existing(data, order_data) == order_data.quantity

\* modified_data.get('quantity', order_data.get('quantity', 0))
new_quantity(data, order_data) ==
    IF "quantity" \in data.fields THEN data.quantity ELSE order_data.quantity

\* modified_data.get('price', order_data.get('price', 0))
new_price(data, order_data) ==
    IF "price" \in data.fields THEN data.price ELSE order_data.price

\* f"...?reason=insufficient_funds&error={funds_error}&instrument={...}&order_id={order_id}"
modify_order_funds_url(funds_error, instrument_token, order_id) ==
    [NoUrl EXCEPT !.base = UPSTOX_FUNDS_URL, !.reason = "insufficient_funds",
                  !.error = funds_error, !.instrument = instrument_token,
                  !.order_id = order_id]

\* the tail of modify_order: put the change, relay the answer
submit_modify(order_id, cs, g, modify) ==
    IF modify.kind = "exception"
    THEN Result(ErrorJson(500, Msg(ExcText)), cs \o <<ModifyCall(order_id, modify)>>, g)
    ELSE Result(handle_response(modify), cs \o <<ModifyCall(order_id, modify)>>, g)

modify_order_handler(order_id, data, details, quote, funds, modify) ==
    IF data.product # Absent /\ data.product \notin DOMAIN PRODUCT_MAP
    THEN Result(ErrorJson(400, Msg("Invalid product type")), <<>>, NoGuard)
    ELSE IF details.kind = "exception"
    THEN Result(ErrorJson(500, Msg(ExcText)), <<DetailsCall(order_id, details)>>, NoGuard)
    ELSE IF details.status # 200
    THEN Result(ErrorJson(500, Msg("Failed to retrieve original order details")),
                <<DetailsCall(order_id, details)>>, NoGuard)
    ELSE IF needs_funds_check(details.transaction_type, data)
    THEN LET c == check_sufficient_funds(details.transaction_type, details.instrument_token,
                                         new_quantity(data, details), new_price(data, details),
                                         quote, funds)
         IN  IF ~c.guard.has_funds
             THEN Result(RedirectJson(c.guard.funds_error,
                                      modify_order_funds_url(c.guard.funds_error,
                                                             details.instrument_token, order_id)),
                         <<DetailsCall(order_id, details)>> \o c.calls, c.guard)
             ELSE submit_modify(order_id, <<DetailsCall(order_id, details)>> \o c.calls, c.guard,
                                modify)
    ELSE submit_modify(order_id, <<DetailsCall(order_id, details)>>, NoGuard, modify)

modify_order ==
    /\ Idle
    /\ \E order_id \in OrderIds, data \in ModifyRequests :
       \E details \in OutcomesFor(
            token_required(modify_order_handler(order_id, data, NoDetails, NoQuote, NoFunds,
                                                NoRelay)).calls,
            "details", DetailsOutcomes, NoDetails) :
       \E quote \in OutcomesFor(
            token_required(modify_order_handler(order_id, data, details, NoQuote, NoFunds,
                                                NoRelay)).calls,
            "quote", QuoteOutcomes, NoQuote) :
       \E funds \in OutcomesFor(
            token_required(modify_order_handler(order_id, data, details, quote, NoFunds,
                                                NoRelay)).calls,
            "funds", FundsOutcomes, NoFunds) :
       \E modify \in OutcomesFor(
            token_required(modify_order_handler(order_id, data, details, quote, funds,
                                                NoRelay)).calls,
            "modify", RelayOutcomes, NoRelay) :
          Serve([endpoint |-> "PUT /orders/<id>", order_id |-> order_id, data |-> data],
                token_required(modify_order_handler(order_id, data, details, quote, funds,
                                                    modify)))

(* ---------------------------- read-only endpoints ---------------------- *)
get_profile ==
    /\ Idle
    /\ \E out \in RelayOutcomes :
          Serve([endpoint |-> "GET /profile"],
                token_required(relay("user/profile", "GET", "", out)))

get_portfolio ==
    /\ Idle
    /\ \E out \in RelayOutcomes :
          Serve([endpoint |-> "GET /portfolio"],
                token_required(relay("portfolio/short-term-positions", "GET", "", out)))

get_holdings ==
    /\ Idle
    /\ \E out \in RelayOutcomes :
          Serve([endpoint |-> "GET /holdings"],
                token_required(relay("portfolio/long-term-holdings", "GET", "", out)))

get_orders ==
    /\ Idle
    /\ \E out \in RelayOutcomes :
          Serve([endpoint |-> "GET /orders"],
                token_required(relay("order/retrieve/all", "GET", "", out)))

get_order ==
    /\ Idle
    /\ \E order_id \in OrderIds, out \in RelayOutcomes :
          Serve([endpoint |-> "GET /orders/<id>", order_id |-> order_id],
                token_required(relay("order/details", "GET", order_id, out)))

cancel_order ==
    /\ Idle
    /\ \E order_id \in OrderIds, out \in RelayOutcomes :
          Serve([endpoint |-> "DELETE /orders/<id>", order_id |-> order_id],
                token_required(relay("order/cancel", "DELETE", order_id, out)))

\* if not (instrument_key := request.args.get('instrument_key')): 400
get_market_quote_handler(instrument_key, out) ==
    IF instrument_key = ""
    THEN Result(ErrorJson(400, Msg("Missing instrument_key")), <<>>, NoGuard)
    ELSE relay("market-quote/quotes", "GET", instrument_key, out)

get_market_quote ==
    /\ Idle
    /\ \E instrument_key \in Instruments \cup {""} :
       \E out \in OutcomesFor(
            token_required(get_market_quote_handler(instrument_key, NoRelay)).calls,
            "relay", RelayOutcomes, NoRelay) :
          Serve([endpoint |-> "GET /market-quote", instrument_key |-> instrument_key],
                token_required(get_market_quote_handler(instrument_key, out)))

get_funds ==
    /\ Idle
    /\ \E out \in RelayOutcomes :
          Serve([endpoint |-> "GET /funds"],
                token_required(relay("user/get-funds-and-margin", "GET", "", out)))

\* redirect(funds_url): a 302 to f"{UPSTOX_FUNDS_URL}?source=api&reason={reason}",
\* with &instrument={instrument} when instrument is not empty
redirect_to_add_funds_handler(reason, instrument) ==
    Result([NoResponse EXCEPT !.status = 302, !.kind = "location",
                              !.redirect_url =
                                  [NoUrl EXCEPT !.base = UPSTOX_FUNDS_URL, !.source = "api",
                                                !.reason = reason,
                                                !.instrument = IF instrument # "" THEN instrument
                                                               ELSE Absent]],
           <<>>, NoGuard)

redirect_to_add_funds ==
    /\ Idle
    /\ \E reason \in {"general", "insufficient_funds"}, instrument \in Instruments \cup {""} :
          Serve([endpoint |-> "GET /funds/add", reason |-> reason, instrument |-> instrument],
                token_required(redirect_to_add_funds_handler(reason, instrument)))

\* /health is not guarded: it probes the upstream only with a token
health_check_handler(out) ==
    IF ACCESS_TOKEN
    THEN Result([NoResponse EXCEPT !.status = 200, !.kind = "health",
                                   !.message = Msg(IF out.kind = "exception"
                                                   THEN "connection error: " \o ExcText
                                                   ELSE "connected")],
                <<Call("probe", "user/profile", "GET", "", out)>>, NoGuard)
    ELSE Result([NoResponse EXCEPT !.status = 200, !.kind = "health"], <<>>, NoGuard)

health_check ==
    /\ Idle
    /\ \E out \in OutcomesFor(health_check_handler(NoRelay).calls, "probe", RelayOutcomes,
                              NoRelay) :
          Serve([endpoint |-> "GET /health"], health_check_handler(out))

\* the worker is ready for the next request
NextRequest ==
    /\ ~Idle
    /\ request' = NoRequest
    /\ calls' = <<>>
    /\ guard' = NoGuard
    /\ response' = NoResponse
    /\ UNCHANGED ACCESS_TOKEN

Next ==
    \/ order
    \/ get_profile
    \/ get_portfolio
    \/ get_holdings
    \/ get_orders
    \/ get_order
    \/ place_order
    \/ redirect_to_add_funds
    \/ modify_order
    \/ cancel_order
    \/ get_market_quote
    \/ get_funds
    \/ health_check
    \/ NextRequest

Spec == Init /\ [][Next]_vars

(* ------------------------- reading a finished request ------------------ *)
Done == response.kind # "none"

IsPlace == request.endpoint = "POST /orders"

IsLegacy == request.endpoint = "POST /order"

IsModify == request.endpoint = "PUT /orders/<id>"

Sites(site) == {i \in 1..Len(calls) : calls[i].site = site}

Answered(i) == calls[i].outcome.kind = "response"

Raised(i) == calls[i].outcome.kind = "exception"

\* every logged call carries an outcome the upstream produced
\* an upstream call does not succeed: it raises, or is answered outside 2xx
Failed(i) == Raised(i) \/ calls[i].outcome.status \notin {200, 201}

LogIsReal == \A i \in 1..Len(calls) : Answered(i) \/ Raised(i)

\* the instrument the order of this request is on
OrderInstrument == IF IsPlace THEN request.data.instrument_token ELSE LegacyInstrument

\* the funds check ran for a BUY, the margin lookup returned a margin, and
\* quantity x resolved price exceeds it / fits in it
MarginReturned(i) == Answered(i) /\ calls[i].outcome.status = 200

MarginOf(i) == IF calls[i].outcome.has_margin THEN calls[i].outcome.available_margin ELSE 0

BuyGuard == guard.ran /\ Upper(guard.transaction_type) = "BUY"

CostExceedsMargin ==
    /\ BuyGuard
    /\ \E i \in Sites("funds") : MarginReturned(i) /\ guard.quantity * guard.price > MarginOf(i)

CostFitsMargin ==
    /\ BuyGuard
    /\ \E i \in Sites("funds") : MarginReturned(i) /\ guard.quantity * guard.price <= MarginOf(i)

AddFundsRedirect == response.status = 303

(* C1: every BUY order (POST /orders and the legacy POST /order) whose
   estimated cost exceeds the margin the funds lookup returned is answered
   with 303, a redirect_url holding the order's instrument token and a
   non-empty reason, and no order-placement call. *)
C1_RedirectCarriesInstrument ==
    ((IsPlace \/ IsLegacy) /\ CostExceedsMargin) =>
        /\ AddFundsRedirect
        /\ response.redirect_url.instrument = OrderInstrument
        /\ response.redirect_url.reason \notin {Absent, ""}
        /\ response.redirect_url.error.text \notin {Absent, ""}
        /\ Sites("place") = {}

InstrumentValidated ==
    \E i \in Sites("validate") : Answered(i) /\ calls[i].outcome.status = 200

SellOrder == IsPlace /\ Upper(request.data.transaction_type) = "SELL"

(* C2: with the required fields, a known product and a validated instrument,
   a BUY whose estimated cost is at most the returned margin (equality
   included) and every SELL is not blocked by the funds guard: the
   order-placement call is issued and the answer is not the 303 redirect. *)
C2_GuardDoesNotBlock ==
    ((IsPlace \/ IsLegacy) /\ InstrumentValidated /\ (CostFitsMargin \/ SellOrder)) =>
        /\ Sites("place") # {}
        /\ ~AddFundsRedirect

C2_Witness ==
    /\ IsPlace
    /\ InstrumentValidated
    /\ CostFitsMargin
    /\ guard.quantity * guard.price > 0
    /\ \E i \in Sites("funds") : MarginOf(i) = guard.quantity * guard.price
    /\ Sites("place") # {}

QuoteLookups == Sites("validate") \cup Sites("quote")

InvalidInstrumentTexts ==
    {"Invalid instrument: " \o e : e \in {"Invalid instrument token", ExcText}}

(* C3: whenever a quote lookup of an order request does not succeed (the
   validation lookup or the price-resolution lookup), the request ends with
   400 and an "Invalid instrument" message and no order-placement call. *)
C3_QuoteFailureIs400 ==
    ((IsPlace \/ IsLegacy) /\ \E i \in QuoteLookups : Failed(i)) =>
        /\ response.status = 400
        /\ response.message.text \in InvalidInstrumentTexts
        /\ Sites("place") = {}

(* C4: for a BUY, a funds lookup that returns a non-success status ends the
   request with 500, not with the 303 redirect, and the order (or the
   modification) is not submitted. *)
C4_FundsLookupFailureIs500 ==
    (BuyGuard /\ \E i \in Sites("funds") : Answered(i) /\ Failed(i)) =>
        /\ response.status = 500
        /\ ~AddFundsRedirect
        /\ Sites("place") = {}
        /\ Sites("modify") = {}

(* C5: without an access token every guarded endpoint answers 401 and no
   request, the health probe included, issues an upstream call. *)
C5_NoTokenNoCall ==
    (Done /\ ~ACCESS_TOKEN) =>
        /\ calls = <<>>
        /\ request.endpoint # "GET /health" => response.status = 401

C5_Witness ==
    /\ ~ACCESS_TOKEN
    /\ IsPlace
    /\ RequiredFields \subseteq request.data.fields
    /\ response.status = 401
    /\ calls = <<>>

TouchesNeither ==
    IsModify /\ "quantity" \notin request.data.fields /\ "price" \notin request.data.fields

(* C6: a modification whose body carries neither quantity nor price runs no
   funds check: no quote lookup and no margin lookup is issued, whatever the
   transaction type of the existing order. *)
C6_ValidityOnlySkipsFundsCheck ==
    TouchesNeither =>
        /\ ~guard.ran
        /\ \A i \in 1..Len(calls) : calls[i].api \notin {"market-quote/quotes",
                                                        "user/get-funds-and-margin"}

C6_Witness ==
    /\ TouchesNeither
    /\ "validity" \in request.data.fields
    /\ \E i \in Sites("details") : Answered(i) /\ calls[i].outcome.transaction_type = "BUY"
    /\ Sites("modify") # {}

NoUsablePrice(i) ==
    /\ Answered(i)
    /\ calls[i].outcome.status = 200
    /\ \/ calls[i].outcome.key # guard.instrument_token
       \/ ~calls[i].outcome.has_last_price
       \/ calls[i].outcome.last_price <= 0

FallbackCase == guard.ran /\ guard.given_price = 0 /\ \E i \in Sites("quote") : NoUsablePrice(i)

(* C7: in the funds check, a given price of 0 with a successful quote lookup
   whose last traded price is 0, negative or absent for the instrument
   resolves to the fallback 1000: the estimated cost is quantity x 1000,
   positive for a positive quantity, and for a BUY the margin lookup is
   issued and a returned margin is compared against that cost. *)
C7_ZeroPriceFallsBack ==
    FallbackCase =>
        /\ guard.price = 1000
        /\ guard.estimated_cost = guard.quantity * 1000
        /\ guard.quantity > 0 => guard.estimated_cost > 0
        /\ BuyGuard =>
            /\ Sites("funds") # {}
            /\ \A i \in Sites("funds") :
                  MarginReturned(i) =>
                      /\ guard.compared
                      /\ guard.has_funds = (MarginOf(i) >= guard.quantity * 1000)

C7_Witness ==
    /\ FallbackCase
    /\ BuyGuard
    /\ guard.quantity = 2
    /\ \E i \in Sites("quote") : calls[i].outcome.has_last_price /\ calls[i].outcome.last_price = 0
    /\ \E i \in Sites("funds") : MarginReturned(i) /\ MarginOf(i) = 1999
    /\ AddFundsRedirect

Forwarded == Sites("relay") \cup Sites("place") \cup Sites("modify")

PassedThrough(i) ==
    /\ response.kind = "passthrough"
    /\ response.json = calls[i].outcome.json
    /\ response.status = calls[i].outcome.status

Normalized(i) ==
    /\ response.kind = "normalized"
    /\ response.code = calls[i].outcome.status
    /\ response.status = calls[i].outcome.status
    /\ response.message.text = (IF calls[i].outcome.json.error_message # Absent
                                THEN calls[i].outcome.json.error_message
                                ELSE "Unknown error")

(* C8 as stated: for every endpoint, order placement included, a forwarded
   call answered 200 or 201 is relayed with the upstream body unmodified and
   the upstream status, any other status as the normalized error body with
   the upstream status. *)
C8_PassThroughEverywhere ==
    \A i \in Forwarded :
        Answered(i) =>
            IF calls[i].outcome.status \in {200, 201} THEN PassedThrough(i) ELSE Normalized(i)

SuccessEnvelope(i) ==
    /\ response.kind = "success"
    /\ response.status = 200
    /\ response.json = calls[i].outcome.json

(* C8 amended: the above holds for every endpoint but order placement; an
   order placement (POST /orders, POST /order) answered 200 or 201 is
   answered locally with status 200 and a success envelope whose order_data
   is the upstream body, any other status as the normalized error body. *)
C8_PassThroughButPlacement ==
    \A i \in Forwarded :
        Answered(i) =>
            IF calls[i].outcome.status \notin {200, 201} THEN Normalized(i)
            ELSE IF calls[i].site = "place" THEN SuccessEnvelope(i)
            ELSE PassedThrough(i)

C8_Witness ==
    /\ IsPlace
    /\ \E i \in Sites("place") : Answered(i) /\ calls[i].outcome.status = 201
    /\ response.status = 200
    /\ response.kind = "success"

GuardLookups == Sites("validate") \cup Sites("quote") \cup Sites("funds")

(* C9: a network failure during instrument validation, the quote lookup or
   the margin lookup of an order request never lets the order through and is
   answered with a generic error, neither a success nor the 303 redirect. *)
C9_NetworkFailureIsGenericError ==
    ((IsPlace \/ IsLegacy \/ IsModify) /\ \E i \in GuardLookups : Raised(i)) =>
        /\ Sites("place") = {}
        /\ Sites("modify") = {}
        /\ response.status >= 400

ExistingOrder == calls[CHOOSE i \in Sites("details") : TRUE].outcome

ReportsInsufficient == guard.ran /\ guard.compared /\ ~guard.has_funds

(* C10: in modify_order the funds check runs on the existing order's
   transaction type and instrument token, with the body's quantity (price)
   when the body carries one and the existing order's otherwise; when it
   finds the funds of a BUY insufficient the answer is 303 with a
   redirect_url carrying the reason, the instrument and the order id, and no
   modify call is issued. *)
C10_ModifyChecksMergedOrder ==
    (IsModify /\ guard.ran) =>
        /\ Sites("details") # {}
        /\ guard.transaction_type = ExistingOrder.transaction_type
        /\ guard.instrument_token = ExistingOrder.instrument_token
        /\ guard.quantity = (IF "quantity" \in request.data.fields THEN request.data.quantity
                             ELSE ExistingOrder.quantity)
        /\ guard.given_price = (IF "price" \in request.data.fields THEN request.data.price
                                ELSE ExistingOrder.price)
        /\ ReportsInsufficient =>
            /\ AddFundsRedirect
            /\ response.redirect_url.reason = "insufficient_funds"
            /\ response.redirect_url.error.text = "Insufficient funds"
            /\ response.redirect_url.instrument = ExistingOrder.instrument_token
            /\ response.redirect_url.order_id = request.order_id
            /\ Sites("modify") = {}

C10_Witness ==
    /\ IsModify
    /\ ReportsInsufficient
    /\ request.data.fields = {"price"}
    /\ ExistingOrder.quantity = 2
    /\ ExistingOrder.price = 1
    /\ request.data.price = 2
    /\ response.redirect_url.error.required = 4
    /\ AddFundsRedirect

NonSuccess == response.status \notin {200, 201}

\* a failed call is the last call of its request, and a failed lookup of the
\* funds guard leaves the check without a comparison and without approval
FailureIsTerminal(i) ==
    /\ i = Len(calls)
    /\ \A j \in 1..Len(calls) : (j # i) => calls[j].site # calls[i].site
    /\ calls[i].site \in {"quote", "funds"} =>
           (guard.ran /\ ~guard.compared /\ ~guard.has_funds)
    /\ calls[i].site = "validate" => ~guard.ran

(* C11 as stated: in every request, once an upstream call fails (non-success
   status or network failure) no upstream call is issued after it, the same
   call is not issued again, a failed step of the funds guard aborts the
   check in that step, and the request ends with a non-success response. *)
C11_FailureEndsRequestUnsuccessfully ==
    \A i \in 1..Len(calls) : Failed(i) => (FailureIsTerminal(i) /\ NonSuccess)

(* C11 amended: the above holds with the non-success response required of
   every endpoint but GET /health, which answers 200 and reports the failed
   probe in its body. *)
C11_FailureIsTerminal ==
    \A i \in 1..Len(calls) :
        Failed(i) =>
            /\ FailureIsTerminal(i)
            /\ request.endpoint # "GET /health" => NonSuccess
            /\ request.endpoint = "GET /health" => response.status = 200

C11_Witness ==
    /\ IsPlace
    /\ Len(calls) = 3
    /\ Answered(1) /\ ~Failed(1)
    /\ Answered(2) /\ ~Failed(2)
    /\ calls[3].site = "funds"
    /\ Raised(3)
    /\ NonSuccess
====
